---- MODULE Spec2Model ----
(***************************************************************************)
(* Model of the log summarizer: lab02/summarizer.py (summarize_directory,  *)
(* parse_line, iter_log_files, Summary) and lab02/__main__.py (main).      *)
(* One run of main is modelled: the root path and the directory listing    *)
(* are drawn in Init, the lines of each opened file are drawn as they are  *)
(* read, and a concurrent process may unlink a file that was enumerated    *)
(* and is not opened yet.                                                  *)
(***************************************************************************)
EXTENDS Integers, Sequences, FiniteSets, TLC

\* Bounds of the model.
MaxEntries == 2     \* directory entries under the root
MaxLines == 2       \* lines in one log file

None == <<>>

-----------------------------------------------------------------------------
\* Paths: a file name is a tuple of characters.

CodePoint(c) ==
    CASE c = "." -> 46
      [] c = "a" -> 97
      [] c = "b" -> 98
      [] c = "g" -> 103
      [] c = "l" -> 108
      [] c = "o" -> 111
      [] c = "t" -> 116
      [] c = "x" -> 120

Names ==
    { <<"a", ".", "l", "o", "g">>,
      <<"b", ".", "l", "o", "g">>,
      <<".", "l", "o", "g">>,
      <<"a", ".", "t", "x", "t">> }

\* Kinds of directory entry: a regular readable file, a subdirectory, a
\* regular file whose open is denied, a regular file whose read faults.
Kinds == {"file", "dir", "unreadable", "faulty"}

is_file(kind) == kind \in {"file", "unreadable", "faulty"}

\* pathlib's PurePath.suffix: the part of the name from its last dot, when
\* that dot is neither the first nor the last character.
suffix(name) ==
    LET dots == {i \in 1..Len(name) : name[i] = "."}
        i == IF dots = {} THEN 0 ELSE CHOOSE d \in dots : \A e \in dots : e <= d
    IN  IF 1 < i /\ i < Len(name) THEN SubSeq(name, i, Len(name)) ELSE <<>>

\* Path.__lt__ for two children of one directory: string order by code point.
RECURSIVE PathLess(_, _)
PathLess(a, b) ==
    IF a = <<>> THEN b # <<>>
    ELSE IF b = <<>> THEN FALSE
    ELSE IF CodePoint(Head(a)) # CodePoint(Head(b))
         THEN CodePoint(Head(a)) < CodePoint(Head(b))
         ELSE PathLess(Tail(a), Tail(b))

RECURSIVE sorted(_)
sorted(S) ==
    IF S = {} THEN <<>>
    ELSE LET m == CHOOSE x \in S : \A y \in S : x = y \/ PathLess(x, y)
         IN  <<m>> \o sorted(S \ {m})

\* iter_log_files without the test of the suffix.
iter_log_files_AnyFile(d) ==
    sorted({n \in DOMAIN d : is_file(d[n])})

\* What iter_log_files yields for a directory listing d (name -> kind).
iter_log_files(d) ==
    sorted({n \in DOMAIN d : is_file(d[n]) /\ suffix(n) = <<".", "l", "o", "g">>})

-----------------------------------------------------------------------------
\* Lines. A line is [ts, level]: the text "dddd-dd-dd dd:dd:dd [LEVEL] msg"
\* with ts the six numeric fields of its timestamp and level the word
\* between the brackets; ts is None for any other text (a blank line, free
\* text, missing delimiters).

LEVELS == {"INFO", "WARNING", "ERROR"}

Lines ==
    { [ts |-> <<2026, 2, 6, 13, 45, 1>>,    level |-> "INFO"],
      [ts |-> <<2025, 12, 31, 23, 59, 59>>, level |-> "WARNING"],
      [ts |-> <<2024, 2, 29, 0, 0, 0>>,     level |-> "ERROR"],
      [ts |-> <<2026, 13, 1, 0, 0, 0>>,     level |-> "INFO"],
      [ts |-> <<2026, 2, 6, 13, 45, 1>>,    level |-> "DEBUG"],
      [ts |-> None,                         level |-> ""] }

\* LINE_RE.match: the shape of the whole line.
LINE_RE(line) ==
    /\ line.ts # None
    /\ Len(line.ts) = 6
    /\ line.ts[1] \in 0..9999
    /\ \A i \in 2..6 : line.ts[i] \in 0..99
    /\ line.level \in LEVELS

IsLeap(y) == (y % 4 = 0 /\ y % 100 # 0) \/ y % 400 = 0

DaysInMonth(y, m) ==
    IF m = 2 THEN (IF IsLeap(y) THEN 29 ELSE 28)
    ELSE IF m \in {4, 6, 9, 11} THEN 30 ELSE 31

\* datetime.strptime(ts, TS_FORMAT) returns a datetime exactly when the
\* fields denote a calendar date and a time of day; it raises ValueError
\* otherwise.
strptime_ok(ts) ==
    /\ ts[1] >= 1
    /\ ts[2] \in 1..12
    /\ ts[3] \in 1..DaysInMonth(ts[1], ts[2])
    /\ ts[4] \in 0..23
    /\ ts[5] \in 0..59
    /\ ts[6] \in 0..59

\* parse_line: None, the pair (ts, level), or the exception it lets through.
parse_line(line) ==
    IF ~LINE_RE(line) THEN [kind |-> "none"]
    ELSE IF ~strptime_ok(line.ts) THEN [kind |-> "raise", exc |-> "ValueError"]
    ELSE [kind |-> "match", ts |-> line.ts, level |-> line.level]

\* datetime.__lt__: order of the fields, most significant first.
RECURSIVE TsLess(_, _)
TsLess(a, b) ==
    IF a = <<>> \/ b = <<>> THEN FALSE
    ELSE IF Head(a) # Head(b) THEN Head(a) < Head(b)
    ELSE TsLess(Tail(a), Tail(b))

-----------------------------------------------------------------------------
\* Summary

NewSummary ==
    [files_processed |-> 0, lines_seen |-> 0, lines_matched |-> 0,
     lines_skipped |-> 0, info |-> 0, warning |-> 0, error |-> 0,
     earliest |-> None, latest |-> None]

\* update_time_bounds with the second test made an elif of the first.
update_time_bounds_Elif(s, ts) ==
    IF s.earliest = None \/ TsLess(ts, s.earliest)
    THEN [s EXCEPT !.earliest = ts]
    ELSE IF s.latest = None \/ TsLess(s.latest, ts)
    THEN [s EXCEPT !.latest = ts] ELSE s

\* update_time_bounds with the comparison of latest turned around.
update_time_bounds_Narrow(s, ts) ==
    LET s1 == IF s.earliest = None \/ TsLess(ts, s.earliest)
              THEN [s EXCEPT !.earliest = ts] ELSE s
    IN  IF s1.latest = None \/ TsLess(ts, s1.latest)
        THEN [s1 EXCEPT !.latest = ts] ELSE s1

update_time_bounds(s, ts) ==
    LET s1 == IF s.earliest = None \/ TsLess(ts, s.earliest)
              THEN [s EXCEPT !.earliest = ts] ELSE s
    IN  IF s1.latest = None \/ TsLess(s1.latest, ts)
        THEN [s1 EXCEPT !.latest = ts] ELSE s1

\* bump_level without the WARNING branch.
bump_level_NoWarning(s, level) ==
    IF level = "INFO" THEN [s EXCEPT !.info = @ + 1]
    ELSE IF level = "ERROR" THEN [s EXCEPT !.error = @ + 1]
    ELSE s

bump_level(s, level) ==
    IF level = "INFO" THEN [s EXCEPT !.info = @ + 1]
    ELSE IF level = "WARNING" THEN [s EXCEPT !.warning = @ + 1]
    ELSE IF level = "ERROR" THEN [s EXCEPT !.error = @ + 1]
    ELSE s

\* The loop body continuing without the count of the skipped line.
count_skipped_NoTally(s) ==
    [s EXCEPT !.lines_seen = @ + 1]

\* The loop body of summarize_directory on a line parse_line returned None for.
count_skipped(s) ==
    [s EXCEPT !.lines_seen = @ + 1, !.lines_skipped = @ + 1]

\* The loop body of summarize_directory on a line that parsed to (ts, level).
count_matched(s, ts, level) ==
    update_time_bounds(
        bump_level([s EXCEPT !.lines_seen = @ + 1, !.lines_matched = @ + 1], level),
        ts)

\* format_report: the fields it renders, the bounds as text or "N/A".
format_report(s) ==
    [files_processed |-> s.files_processed,
     lines_seen |-> s.lines_seen,
     lines_matched |-> s.lines_matched,
     lines_skipped |-> s.lines_skipped,
     info |-> s.info, warning |-> s.warning, error |-> s.error,
     earliest |-> IF s.earliest # None THEN s.earliest ELSE "N/A",
     latest |-> IF s.latest # None THEN s.latest ELSE "N/A"]

-----------------------------------------------------------------------------
VARIABLES
    root,       \* what the path given to main is: "missing", "file" or "dir"
    entries,    \* the directory listing: name -> kind
    pc,         \* where main is
    summary,    \* the Summary being built
    listed,     \* whether directory.iterdir() was called
    files,      \* the sorted list iter_log_files produced
    idx,        \* how many of files the for loop has taken
    handles,    \* the paths of the file objects that are open
    contents,   \* for each opened file, the lines read from it so far
    exc,        \* the exception raised, "none" when there is none
    stdout,     \* the report printed, None when nothing was printed
    stderr,     \* what was written to standard error
    exitCode    \* the exit status of the process, -1 while it runs

vars == <<root, entries, pc, summary, listed, files, idx, handles, contents,
          exc, stdout, stderr, exitCode>>

Listings ==
    UNION { [D -> Kinds] : D \in {E \in SUBSET Names : Cardinality(E) <= MaxEntries} }

Init ==
    /\ root \in {"missing", "file", "dir"}
    /\ entries \in (IF root = "dir" THEN Listings ELSE {<<>>})
    /\ pc = "validate"
    /\ summary = NewSummary
    /\ listed = FALSE
    /\ files = <<>>
    /\ idx = 0
    /\ handles = {}
    /\ contents = <<>>
    /\ exc = "none"
    /\ stdout = None
    /\ stderr = None
    /\ exitCode = -1

Raise(e) ==
    /\ exc' = e
    /\ pc' = "raised"

\* summarize_directory without the is_dir check.
Validate_NoDirCheck ==
    /\ pc = "validate"
    /\ IF root = "missing" THEN Raise("FileNotFoundError")
       ELSE pc' = "iter" /\ exc' = exc
    /\ UNCHANGED <<root, entries, summary, listed, files, idx, handles,
                   contents, stdout, stderr, exitCode>>

\* summarize_directory, the two checks of the root and Summary().
Validate ==
    /\ pc = "validate"
    /\ IF root = "missing" THEN Raise("FileNotFoundError")
       ELSE IF root # "dir" THEN Raise("NotADirectoryError")
       ELSE pc' = "iter" /\ exc' = exc
    /\ UNCHANGED <<root, entries, summary, listed, files, idx, handles,
                   contents, stdout, stderr, exitCode>>

\* The first step of the for loop: the generator lists the directory and sorts.
Enumerate ==
    /\ pc = "iter"
    /\ listed' = TRUE
    /\ IF root = "missing" THEN Raise("FileNotFoundError") /\ files' = files
       ELSE IF root # "dir" THEN Raise("NotADirectoryError") /\ files' = files
       ELSE files' = iter_log_files(entries) /\ pc' = "loop" /\ exc' = exc
    /\ UNCHANGED <<root, entries, summary, idx, handles, contents,
                   stdout, stderr, exitCode>>

\* A concurrent process removes a file that was enumerated and not opened yet.
Unlink ==
    /\ pc \in {"loop", "reading"}
    /\ \E i \in (idx + 1)..Len(files) :
          /\ files[i] \in DOMAIN entries
          /\ entries' = [n \in DOMAIN entries \ {files[i]} |-> entries[n]]
    /\ UNCHANGED <<root, pc, summary, listed, files, idx, handles, contents,
                   exc, stdout, stderr, exitCode>>

\* What log_path.open gives: "ok" or the exception it raises.
open_outcome(path) ==
    IF path \notin DOMAIN entries THEN "FileNotFoundError"
    ELSE IF entries[path] = "dir" THEN "IsADirectoryError"
    ELSE IF entries[path] = "unreadable" THEN "PermissionError"
    ELSE "ok"

\* The for loop swallowing a failed open and going on to the next path.
OpenNext_SkipUnreadable ==
    /\ pc = "loop"
    /\ idx < Len(files)
    /\ idx' = idx + 1
    /\ summary' = [summary EXCEPT !.files_processed = @ + 1]
    /\ LET path == files[idx + 1] IN
         IF open_outcome(path) = "ok"
         THEN /\ handles' = handles \cup {path}
              /\ contents' = [p \in DOMAIN contents \cup {path} |->
                                 IF p = path THEN <<>> ELSE contents[p]]
              /\ pc' = "reading"
              /\ exc' = exc
         ELSE UNCHANGED <<handles, contents, pc, exc>>
    /\ UNCHANGED <<root, entries, listed, files, stdout, stderr, exitCode>>

\* The for loop takes the next path, counts it and opens it.
OpenNext ==
    /\ pc = "loop"
    /\ idx < Len(files)
    /\ idx' = idx + 1
    /\ summary' = [summary EXCEPT !.files_processed = @ + 1]
    /\ LET path == files[idx + 1] IN
         IF open_outcome(path) = "ok"
         THEN /\ handles' = handles \cup {path}
              /\ contents' = [p \in DOMAIN contents \cup {path} |->
                                 IF p = path THEN <<>> ELSE contents[p]]
              /\ pc' = "reading"
              /\ exc' = exc
         ELSE /\ Raise(open_outcome(path))
              /\ UNCHANGED <<handles, contents>>
    /\ UNCHANGED <<root, entries, listed, files, stdout, stderr, exitCode>>

\* One iteration of "for line in f": the line is read and folded in. An
\* exception leaves the with block, which closes the file.
ReadLine ==
    /\ pc = "reading"
    /\ Len(contents[files[idx]]) < MaxLines
    /\ \E line \in Lines :
         LET parsed == parse_line(line) IN
           /\ contents' = [contents EXCEPT ![files[idx]] = Append(@, line)]
           /\ IF parsed.kind = "none"
              THEN /\ summary' = count_skipped(summary)
                   /\ UNCHANGED <<pc, exc, handles>>
              ELSE IF parsed.kind = "match"
              THEN /\ summary' = count_matched(summary, parsed.ts, parsed.level)
                   /\ UNCHANGED <<pc, exc, handles>>
              ELSE /\ summary' = [summary EXCEPT !.lines_seen = @ + 1]
                   /\ handles' = handles \ {files[idx]}
                   /\ Raise(parsed.exc)
    /\ UNCHANGED <<root, entries, listed, files, idx, stdout, stderr, exitCode>>

\* Reading the open file faults: OSError leaves the with block.
ReadFails ==
    /\ pc = "reading"
    /\ files[idx] \in DOMAIN entries
    /\ entries[files[idx]] = "faulty"
    /\ handles' = handles \ {files[idx]}
    /\ Raise("OSError")
    /\ UNCHANGED <<root, entries, summary, listed, files, idx, contents,
                   stdout, stderr, exitCode>>

\* The end of the file without the close of the with block.
EndOfFile_NoClose ==
    /\ pc = "reading"
    /\ ~(files[idx] \in DOMAIN entries /\ entries[files[idx]] = "faulty")
    /\ pc' = "loop"
    /\ UNCHANGED <<root, entries, summary, listed, files, idx, handles,
                   contents, exc, stdout, stderr, exitCode>>

\* The file is exhausted: the with block closes it and the loop goes on.
EndOfFile ==
    /\ pc = "reading"
    /\ ~(files[idx] \in DOMAIN entries /\ entries[files[idx]] = "faulty")
    /\ handles' = handles \ {files[idx]}
    /\ pc' = "loop"
    /\ UNCHANGED <<root, entries, summary, listed, files, idx, contents,
                   exc, stdout, stderr, exitCode>>

\* The for loop is exhausted: return summary.
Return ==
    /\ pc = "loop"
    /\ idx = Len(files)
    /\ pc' = "returned"
    /\ UNCHANGED <<root, entries, summary, listed, files, idx, handles,
                   contents, exc, stdout, stderr, exitCode>>

\* main: print(format_report(...)); return 0.
MainReport ==
    /\ pc = "returned"
    /\ stdout' = format_report(summary)
    /\ exitCode' = 0
    /\ pc' = "exited"
    /\ UNCHANGED <<root, entries, summary, listed, files, idx, handles,
                   contents, exc, stderr>>

\* main: except (FileNotFoundError, NotADirectoryError): print Error, return 2.
MainExcept ==
    /\ pc = "raised"
    /\ exc \in {"FileNotFoundError", "NotADirectoryError"}
    /\ stderr' = "Error"
    /\ exitCode' = 2
    /\ pc' = "exited"
    /\ UNCHANGED <<root, entries, summary, listed, files, idx, handles,
                   contents, exc, stdout>>

\* Any other exception leaves main: the interpreter prints the traceback
\* and the process exits with status 1.
MainUncaught ==
    /\ pc = "raised"
    /\ exc \notin {"FileNotFoundError", "NotADirectoryError"}
    /\ stderr' = "Traceback"
    /\ exitCode' = 1
    /\ pc' = "exited"
    /\ UNCHANGED <<root, entries, summary, listed, files, idx, handles,
                   contents, exc, stdout>>

Next ==
    \/ Validate
    \/ Enumerate
    \/ Unlink
    \/ OpenNext
    \/ ReadLine
    \/ ReadFails
    \/ EndOfFile
    \/ Return
    \/ MainReport
    \/ MainExcept
    \/ MainUncaught

Spec == Init /\ [][Next]_vars

-----------------------------------------------------------------------------
\* Helpers of the properties.

aLog == <<"a", ".", "l", "o", "g">>
bLog == <<"b", ".", "l", "o", "g">>

\* summarize_directory has returned a Summary.
ScanReturned == pc = "returned" \/ (pc = "exited" /\ exitCode = 0)

\* The places (path, index) of the lines read so far.
LinesRead == {<<p, i>> \in (DOMAIN contents) \X (1..MaxLines) : i <= Len(contents[p])}

LineAt(pl) == contents[pl[1]][pl[2]]

\* The lines read that are well-formed log entries, by level.
WellFormed(level) ==
    {pl \in LinesRead : /\ LINE_RE(LineAt(pl))
                        /\ strptime_ok(LineAt(pl).ts)
                        /\ LineAt(pl).level = level}

\* The timestamps of the well-formed lines read.
MatchedTimestamps ==
    {LineAt(pl).ts : pl \in UNION {WellFormed(l) : l \in LEVELS}}

\* A line of the right shape whose timestamp is no calendar date or time.
ImpossibleDate(line) == LINE_RE(line) /\ ~strptime_ok(line.ts)

\* The enumerated file cannot be opened and read to its end.
Unreadable(path) ==
    path \notin DOMAIN entries \/ entries[path] \in {"dir", "unreadable", "faulty"}

-----------------------------------------------------------------------------
\* C1: in the Summary that summarize_directory returns, every line read is
\* counted as exactly one of matched or skipped:
\* lines_seen = lines_matched + lines_skipped, and lines_seen is the number
\* of lines read.
C1_SeenIsMatchedPlusSkipped ==
    ScanReturned =>
        /\ summary.lines_seen = summary.lines_matched + summary.lines_skipped
        /\ summary.lines_seen = Cardinality(LinesRead)

C1_Witness ==
    /\ pc = "returned"
    /\ summary.lines_matched > 0
    /\ summary.lines_skipped > 0
    /\ \E p \in DOMAIN contents : contents[p] = <<>>

\* C2: in the Summary returned, lines_matched = info + warning + error, and
\* each severity counter is the number of matched lines of that level: a
\* line that does not match increments none of them.
C2_MatchedIsSumOfLevels ==
    ScanReturned =>
        /\ summary.lines_matched = summary.info + summary.warning + summary.error
        /\ summary.info = Cardinality(WellFormed("INFO"))
        /\ summary.warning = Cardinality(WellFormed("WARNING"))
        /\ summary.error = Cardinality(WellFormed("ERROR"))

C2_Witness ==
    /\ pc = "returned"
    /\ summary.info > 0
    /\ summary.warning > 0
    /\ summary.error > 0
    /\ summary.lines_skipped > 0

\* C3: after a scan, earliest and latest are both absent or both present;
\* they are absent exactly when lines_matched = 0; when present,
\* earliest <= latest.
C3_BoundsBothOrNeither ==
    ScanReturned =>
        /\ (summary.earliest = None) <=> (summary.latest = None)
        /\ (summary.earliest = None) <=> (summary.lines_matched = 0)
        /\ summary.earliest # None => ~TsLess(summary.latest, summary.earliest)

C3_Witness ==
    /\ pc = "returned"
    /\ summary.lines_matched = 1
    /\ summary.earliest # None
    /\ summary.earliest = summary.latest

\* C4: when a line matched, earliest and latest of the Summary returned are
\* the minimum and the maximum of the timestamps of all matched lines,
\* whatever the order in which the files and lines were read.
C4_BoundsAreMinAndMax ==
    (ScanReturned /\ summary.lines_matched > 0) =>
        /\ summary.earliest \in MatchedTimestamps
        /\ summary.latest \in MatchedTimestamps
        /\ \A t \in MatchedTimestamps :
              /\ ~TsLess(t, summary.earliest)
              /\ ~TsLess(summary.latest, t)

\* Two files, the later timestamp in the first one, a third timestamp between.
C4_Witness ==
    /\ pc = "returned"
    /\ DOMAIN contents = {aLog, bLog}
    /\ Len(contents[aLog]) = 2 /\ Len(contents[bLog]) = 1
    /\ contents[aLog][1].ts = <<2025, 12, 31, 23, 59, 59>>
    /\ contents[aLog][2].ts = <<2026, 2, 6, 13, 45, 1>>
    /\ contents[bLog][1].ts = <<2024, 2, 29, 0, 0, 0>>
    /\ summary.lines_matched = 3

\* C5: a line of the right shape with an impossible calendar date is no
\* match: it is counted in lines_skipped and the scan goes on; it never
\* raises.
C5_ImpossibleDateIsSkipped ==
    /\ exc # "ValueError"
    /\ \A pl \in LinesRead :
          ImpossibleDate(LineAt(pl)) =>
              summary.lines_seen = summary.lines_matched + summary.lines_skipped

\* C6: on a root that is missing or no directory the scan fails with the
\* matching error before the directory is listed or a file opened or
\* counted.
C6_InvalidRootFailsFirst ==
    root # "dir" =>
        /\ ~listed
        /\ files = <<>> /\ idx = 0
        /\ handles = {} /\ DOMAIN contents = {}
        /\ summary = NewSummary
        /\ pc \in {"validate", "raised", "exited"}
        /\ pc # "validate" =>
              exc = (IF root = "missing" THEN "FileNotFoundError"
                                         ELSE "NotADirectoryError")
        /\ stdout = None

C6_Witness ==
    /\ root = "file"
    /\ pc = "exited"
    /\ exc = "NotADirectoryError"
    /\ exitCode = 2

\* C7: only a validation failure (root missing or no directory) ends with
\* the "Error: <message>" line and exit code 2; a scan failing for another
\* reason never does.
C7_ValidationErrorIsDistinct ==
    (pc = "exited" /\ exitCode = 2 /\ stderr = "Error") => root # "dir"

\* C8: when an enumerated file cannot be opened or read, the scan fails as
\* a whole: the file is not skipped, no Summary is returned and no report
\* is printed.
C8_ReadFailureFailsTheScan ==
    (\E i \in 1..Len(files) : Unreadable(files[i])) =>
        /\ ~ScanReturned
        /\ stdout = None
        /\ \A i \in 1..idx :
              Unreadable(files[i]) => (i = idx /\ pc \in {"reading", "raised", "exited"})

C8_Witness ==
    /\ pc = "exited"
    /\ exc = "PermissionError"
    /\ idx = 2
    /\ summary.lines_matched > 0
    /\ stdout = None
    /\ exitCode # 0

C10_OneFileOpenAtATime ==
    /\ Cardinality(handles) <= 1
    /\ pc = "reading" => handles = {files[idx]}
    /\ pc # "reading" => handles = {}
    /\ \A i, j \in 1..Len(files) : i < j => PathLess(files[i], files[j])

C10_Witness ==
    /\ pc = "raised"
    /\ exc = "ValueError"
    /\ idx = 2
    /\ Len(contents[files[1]]) > 0
    /\ Len(contents[files[2]]) = 2
    /\ handles = {}

====
